---- MODULE Spec2Model ----
(***************************************************************************)
(* Model of version_check.py: the four version-resolution functions        *)
(* (check_pangolin_version, check_artic_version,                           *)
(* check_artic_sarscov2_primers, check_artic_ncov2019_primers), the sort   *)
(* key and sort they share, and main.                                      *)
(*                                                                         *)
(* Text is a sequence of one-character strings.  A Python float is a pair  *)
(* <<m, e>> standing for m / 10^e, kept normalised (no trailing zero in    *)
(* the fraction), so equal values are equal pairs.  A Python dict is a     *)
(* record; an exception that leaves a function is [exception |-> text].    *)
(***************************************************************************)
EXTENDS Integers, Sequences, FiniteSets, TLC

VARIABLES
    pc,             \* position of the running code
    ret,            \* where the running function returns to
    inp,            \* entry point and the arguments of a direct call
    data,           \* the API response the running function holds
    soup,           \* the parsed page the running function holds
    err_e,          \* check_pangolin_version: the exception e bound at line 27
    versions,       \* the list `versions` of the primer functions
    tried,          \* strategies attempted so far by the running function
    net,            \* requests.get calls made so far: <<url, outcome>>
    retval,         \* what the last finished function handed to its caller
    pangolin_info,  \* main's locals
    artic_info,
    schemes_info,
    calls,          \* functions main has called so far
    printed,        \* lines written to standard output
    key             \* result of the sort-key lambda (direct evaluation)

vars == <<pc, ret, inp, data, soup, err_e, versions, tried, net, retval,
          pangolin_info, artic_info, schemes_info, calls, printed, key>>

(***************************************************************************)
(* Bounds of the model.                                                    *)
(***************************************************************************)
MaxLabelLen == 4    \* longest label enumerated character by character
MaxList == 3        \* longest list handed to the sort directly
MaxDivs == 2        \* most elements on a fetched page

(***************************************************************************)
(* Text.                                                                   *)
(***************************************************************************)
Digits == {"0", "1", "2", "3", "4", "5", "6", "7", "8", "9"}

DigitVal(c) ==
    CASE c = "0" -> 0 [] c = "1" -> 1 [] c = "2" -> 2 [] c = "3" -> 3
      [] c = "4" -> 4 [] c = "5" -> 5 [] c = "6" -> 6 [] c = "7" -> 7
      [] c = "8" -> 8 [] c = "9" -> 9

Whitespace == {" "}

RECURSIVE lstrip(_)
lstrip(s) == IF s # <<>> /\ Head(s) \in Whitespace THEN lstrip(Tail(s)) ELSE s

RECURSIVE rstrip(_)
rstrip(s) ==
    IF s # <<>> /\ s[Len(s)] \in Whitespace
    THEN rstrip(SubSeq(s, 1, Len(s) - 1)) ELSE s

\* str.strip()
strip(s) == rstrip(lstrip(s))

\* `c in s` for a one-character c
Contains(s, c) == \E i \in 1..Len(s) : s[i] = c

Reverse(s) == [i \in 1..Len(s) |-> s[Len(s) + 1 - i]]

(***************************************************************************)
(* re.findall(r'\d+\.\d+|\d+', x)                                          *)
(***************************************************************************)
RECURSIVE DigitRunEnd(_, _)
\* the index just past the longest run of digits of s that starts at i
DigitRunEnd(s, i) ==
    IF i <= Len(s) /\ s[i] \in Digits THEN DigitRunEnd(s, i + 1) ELSE i

\* the index just past the match of \d+\.\d+|\d+ at i; i itself if none
MatchEnd(s, i) ==
    LET e1 == DigitRunEnd(s, i)
    IN  IF e1 = i THEN i
        ELSE IF e1 <= Len(s) /\ s[e1] = "." /\ DigitRunEnd(s, e1 + 1) > e1 + 1
             THEN DigitRunEnd(s, e1 + 1)
             ELSE e1

RECURSIVE FindAllFrom(_, _)
FindAllFrom(s, i) ==
    IF i > Len(s) THEN <<>>
    ELSE LET e == MatchEnd(s, i)
         IN  IF e = i THEN FindAllFrom(s, i + 1)
             ELSE <<SubSeq(s, i, e - 1)>> \o FindAllFrom(s, e)

findall(s) == FindAllFrom(s, 1)

(***************************************************************************)
(* float(n) if n.replace('.', '', 1).isdigit() else 0                      *)
(***************************************************************************)
RECURSIVE ReplaceFirstDot(_)
\* n.replace('.', '', 1)
ReplaceFirstDot(n) ==
    IF n = <<>> THEN <<>>
    ELSE IF Head(n) = "." THEN Tail(n)
    ELSE <<Head(n)>> \o ReplaceFirstDot(Tail(n))

isdigit(n) == n # <<>> /\ \A i \in 1..Len(n) : n[i] \in Digits

RECURSIVE IntOf(_)
IntOf(n) == IF n = <<>> THEN 0 ELSE 10 * IntOf(SubSeq(n, 1, Len(n) - 1)) + DigitVal(n[Len(n)])

RECURSIVE Normalise(_)
Normalise(f) ==
    IF f[2] > 0 /\ f[1] % 10 = 0 THEN Normalise(<<f[1] \div 10, f[2] - 1>>) ELSE f

\* float(n) for n = digits or digits.digits
float(n) ==
    LET dot == IF Contains(n, ".") THEN CHOOSE i \in 1..Len(n) : n[i] = "." ELSE 0
    IN  IF dot = 0 THEN <<IntOf(n), 0>>
        ELSE Normalise(<<IntOf(ReplaceFirstDot(n)), Len(n) - dot>>)

KeyComponent(n) == IF isdigit(ReplaceFirstDot(n)) THEN float(n) ELSE <<0, 0>>

\* a variant that gives a label without digit groups the key [0.0]
sortKeyZeroDefault(x) ==
    LET groups == findall(x)
    IN  IF groups = <<>> THEN << <<0, 0>> >>
        ELSE [i \in 1..Len(groups) |-> KeyComponent(groups[i])]

\* the key lambda of both sorts
sortKey(x) ==
    LET groups == findall(x)
    IN  [i \in 1..Len(groups) |-> KeyComponent(groups[i])]

(***************************************************************************)
(* Comparison of floats and of lists of floats, and list.sort.             *)
(***************************************************************************)
RECURSIVE Pow10(_)
Pow10(k) == IF k = 0 THEN 1 ELSE 10 * Pow10(k - 1)

FloatLess(a, b) == a[1] * Pow10(b[2]) < b[1] * Pow10(a[2])

RECURSIVE ListLess(_, _)
\* Python's a < b on lists: lexicographic, a proper prefix is smaller
ListLess(a, b) ==
    IF b = <<>> THEN FALSE
    ELSE IF a = <<>> THEN TRUE
    ELSE IF Head(a) = Head(b) THEN ListLess(Tail(a), Tail(b))
    ELSE FloatLess(Head(a), Head(b))

\* x put into the ascending list s behind every element not greater than it
InsertAsc(s, x) ==
    LET before == {j \in 1..Len(s) : ListLess(sortKey(x), sortKey(s[j]))}
        p == IF before = {} THEN Len(s) + 1
             ELSE CHOOSE j \in before : \A k \in before : j <= k
    IN  SubSeq(s, 1, p - 1) \o <<x>> \o SubSeq(s, p, Len(s))

RECURSIVE SortAsc(_)
\* the stable ascending merge/insertion sort of list.sort
SortAsc(s) ==
    IF s = <<>> THEN <<>>
    ELSE InsertAsc(SortAsc(SubSeq(s, 1, Len(s) - 1)), s[Len(s)])

\* a variant that sorts ascending and then reverses the result
orderDescendingReversed(s) == Reverse(SortAsc(s))

\* versions.sort(key=..., reverse=True): list.sort reverses the list, sorts
\* it ascending and stably, and reverses it again
orderDescending(s) == Reverse(SortAsc(Reverse(s)))

(***************************************************************************)
(* Values the functions exchange.                                          *)
(***************************************************************************)
Opt(S) == {<<>>} \cup {<<x>> : x \in S}

Ok(v) == [raised |-> FALSE, v |-> v]
Raise(e) == [raised |-> TRUE, e |-> e]

Unset == [unset |-> TRUE]
NoPage == [kind |-> "none", divs |-> <<>>]
NoData == [status |-> "", json |-> FALSE, tag_name |-> <<>>, published_at |-> <<>>,
           html_url |-> <<>>]

IsFailure(d) == "error" \in DOMAIN d
IsSuccess(d) == "url" \in DOMAIN d

txt_v43 == <<"v", "4", ".", "3">>
txt_v12 == <<"v", "1", ".", "2">>
txt_v12_padded == <<" ", "v", "1", ".", "2", " ">>
txt_12 == <<"1", ".", "2">>
txt_v9 == <<"v", "9">>

API_PANGOLIN == "https://api.github.com/repos/cov-lineages/pangolin/releases/latest"
URL_RELEASES == "https://github.com/cov-lineages/pangolin/releases"
URL_TAGS == "https://github.com/cov-lineages/pangolin/tags"
URL_TAG_PREFIX == "https://github.com/cov-lineages/pangolin/releases/tag/"
API_ARTIC == "https://api.github.com/repos/artic-network/fieldbioinformatics/releases/latest"
URL_SARSCOV2 == "https://github.com/artic-network/primer-schemes/tree/master/sars-cov-2"
URL_NCOV2019 == "https://github.com/artic-network/primer-schemes/tree/master/nCoV-2019"

\* a URL is a fixed text followed by a text taken from the page
Url(base, tail) == [base |-> base, tail |-> tail]

\* what requests.get / raise_for_status raise
TransportErrors == {"ConnectionError", "HTTPError"}

(***************************************************************************)
(* Timestamps.  tail is what follows the seconds; "garbage" is a text no   *)
(* parser accepts.                                                         *)
(***************************************************************************)
Timestamp(date, tail) == [date |-> date, time |-> <<23, 59, 58>>, tail |-> tail]

\* datetime.strptime(t, "%Y-%m-%dT%H:%M:%SZ")
strptime(t) ==
    IF t.tail = "Z" THEN Ok([date |-> t.date, time |-> t.time])
    ELSE Raise("time data does not match format '%Y-%m-%dT%H:%M:%SZ'")

\* datetime.fromisoformat(t.replace('Z', '+00:00'))
fromisoformat(t) ==
    IF t.tail \in {"Z", ".123Z", "+00:00"} THEN Ok([date |-> t.date, time |-> t.time])
    ELSE Raise("Invalid isoformat string")

\* .strftime("%Y-%m-%d")
strftime(dt) == [kind |-> "date", ymd |-> dt.date]
UnknownDate == [kind |-> "Unknown", ymd |-> <<>>]

(***************************************************************************)
(* The "latest release" API (lines 12-26 and 124-135).                     *)
(***************************************************************************)
ApiUrl == Url("https://github.com/owner/repo/releases/tag/v4.3", <<>>)

ApiData(tag_name, published_at, html_url) ==
    [status |-> "ok", json |-> TRUE, tag_name |-> tag_name,
     published_at |-> published_at, html_url |-> html_url]

\* what the API may answer: a transport error, a body that is no JSON, a
\* record that lacks a field or carries a date of another format, and
\* complete records
ApiResponses ==
    [status : TransportErrors, json : {FALSE}, tag_name : {<<>>},
     published_at : {<<>>}, html_url : {<<>>}]
    \cup { [status |-> "ok", json |-> FALSE, tag_name |-> <<>>, published_at |-> <<>>,
           html_url |-> <<>>],
           ApiData(<<>>, <<Timestamp(<<2021, 6, 1>>, "Z")>>, <<ApiUrl>>),
           ApiData(<<txt_v43>>, <<>>, <<ApiUrl>>),
           ApiData(<<txt_v43>>, <<Timestamp(<<2021, 6, 1>>, ".123Z")>>, <<ApiUrl>>),
           ApiData(<<txt_v43>>, <<Timestamp(<<2021, 6, 1>>, "garbage")>>, <<ApiUrl>>),
           ApiData(<<txt_v43>>, <<Timestamp(<<2021, 6, 1>>, "Z")>>, <<>>),
           ApiData(<<txt_v43>>, <<Timestamp(<<2021, 6, 1>>, "Z")>>, <<ApiUrl>>),
           ApiData(<<txt_v43>>, <<Timestamp(<<2023, 12, 31>>, "Z")>>, <<ApiUrl>>) }

\* the body of the try block: the dict returned, or the exception raised
LatestRelease(resp) ==
    IF resp.status # "ok" THEN Raise(resp.status)
    ELSE IF ~resp.json THEN Raise("Expecting value: line 1 column 1 (char 0)")
    ELSE IF resp.tag_name = <<>> THEN Raise("'tag_name'")
    ELSE IF resp.published_at = <<>> THEN Raise("'published_at'")
    ELSE IF strptime(resp.published_at[1]).raised THEN Raise(strptime(resp.published_at[1]).e)
    ELSE IF resp.html_url = <<>> THEN Raise("'html_url'")
    ELSE Ok([version |-> resp.tag_name[1],
             published_date |-> strftime(strptime(resp.published_at[1]).v),
             url |-> resp.html_url[1]])

(***************************************************************************)
(* The releases page and the tags page of check_pangolin_version.  A page  *)
(* is the sequence of its div elements in document order; a div holds its  *)
(* hyperlinks and at most one relative-time element.                       *)
(***************************************************************************)
Anchor(selector, text) ==
    [primary |-> selector = "a.Link--primary",
     href_tag |-> selector = "a[href*=/releases/tag/]",
     hovercard |-> selector = "a[data-hovercard-type=release]",
     text |-> text]

ReleasesAnchors ==
    { Anchor("a.Link--primary", txt_v12), Anchor("a[href*=/releases/tag/]", txt_v12_padded),
      Anchor("a[data-hovercard-type=release]", txt_v9), Anchor("a", txt_v9) }

TagsAnchors ==
    { Anchor("a[href*=/releases/tag/]", txt_v12_padded), Anchor("a[href*=/releases/tag/]", txt_12),
      Anchor("a", txt_v9) }

TimeElements ==
    { [has_datetime |-> FALSE, datetime |-> Timestamp(<<2021, 6, 1>>, "Z")],
      [has_datetime |-> TRUE, datetime |-> Timestamp(<<2021, 6, 1>>, "Z")],
      [has_datetime |-> TRUE, datetime |-> Timestamp(<<2021, 6, 1>>, "garbage")] }

\* the releases page: candidate release elements of two of the four classes
\* the selectors name, and a div none of them matches
ReleasesDivs ==
    [cls : {"release-header"}, links : Opt(ReleasesAnchors), time : Opt(TimeElements)]
    \cup [cls : {"Box-row"}, links : Opt({Anchor("a[href*=/releases/tag/]", txt_v12_padded)}),
          time : {<<>>}]
    \cup [cls : {"other"}, links : {<<>>}, time : {<<>>}]

\* the tags page: rows, and divs that are no rows but hold hyperlinks
TagsDivs ==
    [cls : {"Box-row"}, links : Opt(TagsAnchors), time : Opt(TimeElements)]
    \cup [cls : {"other"}, links : Opt(TagsAnchors), time : {<<>>}]

SeqsUpTo(S, n) == UNION {[1..k -> S] : k \in 0..n}

\* the number of elements a fetched page may hold
PageLen == inp.page_len

ReleasesPages == {[kind |-> "releases", divs |-> d] : d \in SeqsUpTo(ReleasesDivs, PageLen)}
TagsPages == {[kind |-> "tags", divs |-> d] : d \in SeqsUpTo(TagsDivs, PageLen)}

\* soup.select(selector) for the div selectors used
select(page, cls) == SelectSeq(page.divs, LAMBDA d : d.cls = cls)

\* lines 40-52: the first element of the first selector that matches
ReleaseSelectors == <<"release-header", "release", "Box-row", "hovercard-release">>

release_element(page) ==
    LET hits == {i \in 1..Len(ReleaseSelectors) : select(page, ReleaseSelectors[i]) # <<>>}
    IN  IF hits = {} THEN <<>>
        ELSE LET i == CHOOSE i \in hits : \A j \in hits : i <= j
             IN  <<select(page, ReleaseSelectors[i])[1]>>

\* element.select_one(selector) for the three link selectors
FirstLink(el, Matches(_)) ==
    LET hits == SelectSeq(el.links, Matches)
    IN  IF hits = <<>> THEN <<>> ELSE <<hits[1]>>

\* a variant that knows the first link selector only
version_tagFirstSelectorOnly(el) == FirstLink(el, LAMBDA a : a.primary)

\* lines 95-100
version_tag(el) ==
    LET byPrimary == FirstLink(el, LAMBDA a : a.primary)
        byHref == FirstLink(el, LAMBDA a : a.href_tag)
        byHover == FirstLink(el, LAMBDA a : a.hovercard)
    IN  IF byPrimary # <<>> THEN byPrimary
        ELSE IF byHref # <<>> THEN byHref ELSE byHover

\* lines 69-73 and 108-112: the date of an element, or the exception
published_date(el) ==
    IF el.time # <<>> /\ el.time[1].has_datetime
    THEN LET dt == fromisoformat(el.time[1].datetime)
         IN  IF dt.raised THEN dt ELSE Ok(strftime(dt.v))
    ELSE Ok(UnknownDate)

VersionRecord(version, date) ==
    [version |-> version, published_date |-> date, url |-> Url(URL_TAG_PREFIX, version)]

\* line 120
NestedFailure(e, nested_e) ==
    [error |-> <<"Failed to retrieve Pangolin version: ", e, ", then ", nested_e>>]

\* line 103
NoVersionTag == [error |-> <<"Could not find version tag">>]

\* line 92
NoVersionInformation == [error |-> <<"Could not find Pangolin version information">>]

\* lines 37-54 and 94-118 on the parsed releases page: fall through to the
\* tags page, return a dict, or raise into the handler of line 119
ReleasesPage(page) ==
    LET el == release_element(page)
    IN  IF el = <<>> THEN [kind |-> "fallthrough"]
        ELSE IF version_tag(el[1]) = <<>>
             THEN [kind |-> "return", value |-> NoVersionTag]
        ELSE LET date == published_date(el[1])
             IN  IF date.raised THEN [kind |-> "raise", e |-> date.e]
                 ELSE [kind |-> "return",
                       value |-> VersionRecord(strip(version_tag(el[1])[1].text), date.v)]

\* lines 62-79 on the parsed tags page
TagsPage(page) ==
    LET rows == select(page, "Box-row")
        tag_link == IF rows = <<>> THEN <<>>
                    ELSE FirstLink(rows[1], LAMBDA a : a.href_tag)
    IN  IF tag_link = <<>> THEN [kind |-> "fallthrough"]
        ELSE LET date == published_date(rows[1])
             IN  IF date.raised THEN [kind |-> "raise", e |-> date.e]
                 ELSE [kind |-> "return",
                       value |-> VersionRecord(strip(tag_link[1].text), date.v)]

RECURSIVE Flatten(_)
Flatten(ss) == IF ss = <<>> THEN <<>> ELSE Head(ss) \o Flatten(Tail(ss))

\* soup.find_all('a')
find_all_a(page) == Flatten([i \in 1..Len(page.divs) |-> page.divs[i].links])

\* lines 82-92 on the same tags page
LinkScan(page) ==
    LET version_links == SelectSeq(find_all_a(page),
                                   LAMBDA a : a.href_tag /\ Contains(a.text, "v"))
    IN  IF version_links # <<>>
        THEN VersionRecord(strip(version_links[1].text), UnknownDate)
        ELSE NoVersionInformation

(***************************************************************************)
(* check_artic_version (lines 122-137).                                    *)
(***************************************************************************)
\* a variant without the except clause: the exception leaves the function
ArticHandlerReraise(e) == Raise(e)

\* lines 136-137
ArticHandler(e) == Ok([error |-> <<"Failed to retrieve ARTIC version: ", e>>])

check_artic_version(resp) ==
    LET r == LatestRelease(resp)
    IN  IF r.raised THEN ArticHandler(r.e) ELSE r

(***************************************************************************)
(* The sort inside a function: float() raises ValueError on a text that is *)
(* no number, and the exception leaves list.sort with the list unchanged.  *)
(***************************************************************************)
FloatRaises(n) == ~isdigit(ReplaceFirstDot(n))

KeyRaises(x) ==
    \E i \in 1..Len(findall(x)) :
        isdigit(ReplaceFirstDot(findall(x)[i])) /\ FloatRaises(findall(x)[i])

SortRaises(s) == \E i \in 1..Len(s) : KeyRaises(s[i])

(***************************************************************************)
(* check_artic_sarscov2_primers (lines 139-188).                           *)
(***************************************************************************)
txt_V1 == <<"V", "1">>
txt_V2 == <<"V", "2">>
txt_V53_padded == <<" ", "V", "5", ".", "3", " ">>
txt_v3 == <<"v", "3">>
txt_old == <<"o", "l", "d">>

SarsTexts == {txt_V1, txt_V2, txt_V53_padded, txt_v3, txt_old, <<>>}

\* a div of the listing: its class, whether it holds the directory icon,
\* and the text of its a.js-navigation-open link if it has one
SarsDivs == [cls : {"Box-row", "other"}, icon : BOOLEAN, name : Opt(SarsTexts)]

SarsPages == {[kind |-> "sars-cov-2", divs |-> d] : d \in SeqsUpTo(SarsDivs, PageLen)}

\* re.match(r'V?\d+(\.\d+)*', name, re.IGNORECASE)
IsVersionLike(name) ==
    LET rest == IF name # <<>> /\ Head(name) \in {"V", "v"} THEN Tail(name) ELSE name
    IN  rest # <<>> /\ Head(rest) \in Digits

\* the rows the loops of lines 155-170 take a name from
DirectoryRows(page) ==
    SelectSeq(select(page, "Box-row"), LAMBDA row : row.icon /\ row.name # <<>>)

Names(rows) == [i \in 1..Len(rows) |-> strip(rows[i].name[1])]

\* a variant without the fallback of lines 166-170
DetectedVersionsNoFallback(page) ==
    SelectSeq(Names(DirectoryRows(page)), IsVersionLike)

\* lines 154-170
DetectedVersions(page) ==
    LET matching == SelectSeq(Names(DirectoryRows(page)), IsVersionLike)
    IN  IF matching # <<>> THEN matching ELSE Names(DirectoryRows(page))

\* lines 187-188
SarsHandler(e) == Ok([error |-> <<"Failed to retrieve ARTIC SARS-CoV-2 primers: ", e>>])

\* lines 148-186 on the parsed page
SarsCov2Primers(page) ==
    LET found == DetectedVersions(page)
    IN  IF SortRaises(found) THEN SarsHandler("could not convert string to float")
        ELSE LET sorted == orderDescending(found)
             IN  IF sorted = <<>> THEN Ok([error |-> <<"No primer versions found">>])
                 ELSE Ok([latest_version |-> sorted[1],
                          all_versions |-> sorted,
                          url |-> Url(URL_SARSCOV2, <<"/">> \o sorted[1])])

(***************************************************************************)
(* check_artic_ncov2019_primers (lines 190-259).                           *)
(***************************************************************************)
txt_V2_padded == <<" ", "V", "2", " ">>
txt_dotdot == <<".", ".">>
txt_dot == <<".">>
txt_nCoV == <<"n", "C", "o", "V", "-", "2", "0", "1", "9">>
txt_blank == <<" ">>

\* href: "none" no href attribute, "in" a target holding
\* '/tree/master/nCoV-2019/', "other" any other target
NcovAnchors ==
    [href : {"in"}, text : {txt_V1, txt_V2_padded, txt_dotdot, txt_dot, txt_nCoV, txt_blank}]
    \cup [href : {"other", "none"}, text : {txt_V1}]

\* the hyperlinks found inside rows
NcovRowLinks ==
    Opt({ [href |-> "in", text |-> txt_V1], [href |-> "in", text |-> txt_blank],
          [href |-> "other", text |-> txt_V1], [href |-> "other", text |-> txt_V2_padded] })

\* a div: role="row" or not, its class, the class of its svg icon ("none"
\* without one), its first hyperlink
NcovDivs ==
    [role_row : {FALSE}, cls : {"other"}, svg : {"none"}, links : {<<a>> : a \in NcovAnchors}]
    \cup [role_row : {TRUE}, cls : {"other"}, svg : {"octicon-file-directory-fill"},
          links : NcovRowLinks]
    \cup [role_row : {FALSE}, cls : {"Box-row"}, svg : {"directory"}, links : NcovRowLinks]
    \cup [role_row : {FALSE}, cls : {"js-navigation-item"},
          svg : {"octicon-file-directory-fill"}, links : NcovRowLinks]

NcovPages == {[kind |-> "nCoV-2019", divs |-> d] : d \in SeqsUpTo(NcovDivs, PageLen)}

RECURSIVE Dedup(_, _)
\* lines 217-218: [x for x in versions if not (x in seen or seen.add(x))]
Dedup(s, seen) ==
    IF s = <<>> THEN <<>>
    ELSE IF Head(s) \in seen THEN Dedup(Tail(s), seen)
    ELSE <<Head(s)>> \o Dedup(Tail(s), seen \cup {Head(s)})

\* a variant of the first scan that keeps repeated link texts
HyperlinkScanKeepRepeats(page) ==
    LET hits == SelectSeq(find_all_a(page),
                    LAMBDA a : /\ a.href = "in"
                               /\ strip(a.text) # <<>>
                               /\ strip(a.text) \notin {txt_dotdot, txt_dot, txt_nCoV})
    IN  [i \in 1..Len(hits) |-> strip(hits[i].text)]

\* lines 208-218
HyperlinkScan(page) ==
    LET hits == SelectSeq(find_all_a(page),
                    LAMBDA a : /\ a.href = "in"
                               /\ strip(a.text) # <<>>
                               /\ strip(a.text) \notin {txt_dotdot, txt_dot, txt_nCoV})
    IN  Dedup([i \in 1..Len(hits) |-> strip(hits[i].text)], {})

\* lines 223-230
RoleRowScan(page) ==
    LET rows == SelectSeq(page.divs,
                    LAMBDA row : /\ row.role_row
                                 /\ row.svg = "octicon-file-directory-fill"
                                 /\ row.links # <<>>
                                 /\ strip(row.links[1].text) # <<>>)
    IN  [i \in 1..Len(rows) |-> strip(rows[i].links[1].text)]

\* lines 234-239
ClassRowScan(page) ==
    LET rows == SelectSeq(page.divs,
                    LAMBDA row : /\ row.cls \in {"Box-row", "js-navigation-item"}
                                 /\ row.svg \in {"octicon-file-directory-fill", "directory"}
                                 /\ row.links # <<>>)
    IN  [i \in 1..Len(rows) |-> strip(rows[i].links[1].text)]

\* line 242
NoVersionsDetected ==
    [error |-> <<"Could not detect ARTIC primer versions from the GitHub page">>]

\* lines 245-252
SortOrKeep(s) == IF SortRaises(s) THEN s ELSE orderDescending(s)

\* lines 258-259
NcovHandler(e) == Ok([error |-> <<"Failed to retrieve ARTIC nCoV-2019 primers: ", e>>])

(***************************************************************************)
(* Calls and returns.                                                      *)
(***************************************************************************)
PANGOLIN == "check_pangolin_version"
ARTIC == "check_artic_version"
SARSCOV2 == "check_artic_sarscov2_primers"
NCOV2019 == "check_artic_ncov2019_primers"

NoReturn == [from |-> "", raised |-> FALSE, value |-> Unset]

\* function f hands r to its caller: a dict, or an exception passing through
Return(f, r) ==
    /\ retval' = [from |-> f, raised |-> r.raised,
                  value |-> IF r.raised THEN [exception |-> r.e] ELSE r.v]
    /\ pc' = ret

\* requests.get(url) followed by raise_for_status()
Fetched(url, status) == net' = Append(net, <<url, status>>)

PageResponses(pages) ==
    [status : {"ok"}, page : pages] \cup [status : TransportErrors, page : {NoPage}]

(***************************************************************************)
(* check_pangolin_version (lines 9-120), one action per strategy.          *)
(***************************************************************************)
\* Strategy A, lines 12-27
PangolinApi ==
    /\ pc = "pangolin:A"
    /\ \E resp \in ApiResponses :
        LET r == LatestRelease(resp)
        IN  /\ Fetched(API_PANGOLIN, resp.status)
            /\ data' = resp
            /\ tried' = <<"A">>
            /\ IF r.raised
               THEN /\ err_e' = r.e
                    /\ pc' = "pangolin:B"
                    /\ UNCHANGED retval
               ELSE /\ Return(PANGOLIN, r)
                    /\ UNCHANGED err_e
    /\ UNCHANGED <<ret, inp, soup, versions, pangolin_info, artic_info,
                   schemes_info, calls, printed, key>>

\* Strategy B, lines 29-54 and 94-120
PangolinReleases ==
    /\ pc = "pangolin:B"
    /\ \E resp \in PageResponses(ReleasesPages) :
        /\ Fetched(URL_RELEASES, resp.status)
        /\ tried' = Append(tried, "B")
        /\ IF resp.status # "ok"
           THEN /\ Return(PANGOLIN, Ok(NestedFailure(err_e, resp.status)))
                /\ UNCHANGED soup
           ELSE LET o == ReleasesPage(resp.page)
                IN  /\ soup' = resp.page
                    /\ CASE o.kind = "fallthrough" ->
                                pc' = "pangolin:C" /\ UNCHANGED retval
                         [] o.kind = "return" -> Return(PANGOLIN, Ok(o.value))
                         [] o.kind = "raise" ->
                                Return(PANGOLIN, Ok(NestedFailure(err_e, o.e)))
    /\ UNCHANGED <<ret, inp, data, err_e, versions, pangolin_info, artic_info,
                   schemes_info, calls, printed, key>>

\* Strategy C, lines 55-79
PangolinTags ==
    /\ pc = "pangolin:C"
    /\ \E resp \in PageResponses(TagsPages) :
        /\ Fetched(URL_TAGS, resp.status)
        /\ tried' = Append(tried, "C")
        /\ IF resp.status # "ok"
           THEN /\ Return(PANGOLIN, Ok(NestedFailure(err_e, resp.status)))
                /\ UNCHANGED soup
           ELSE LET o == TagsPage(resp.page)
                IN  /\ soup' = resp.page
                    /\ CASE o.kind = "fallthrough" ->
                                pc' = "pangolin:D" /\ UNCHANGED retval
                         [] o.kind = "return" -> Return(PANGOLIN, Ok(o.value))
                         [] o.kind = "raise" ->
                                Return(PANGOLIN, Ok(NestedFailure(err_e, o.e)))
    /\ UNCHANGED <<ret, inp, data, err_e, versions, pangolin_info, artic_info,
                   schemes_info, calls, printed, key>>

\* Strategy D, lines 81-92
PangolinLinkScan ==
    /\ pc = "pangolin:D"
    /\ tried' = Append(tried, "D")
    /\ Return(PANGOLIN, Ok(LinkScan(soup)))
    /\ UNCHANGED <<ret, inp, data, soup, err_e, versions, net, pangolin_info,
                   artic_info, schemes_info, calls, printed, key>>

(***************************************************************************)
(* check_artic_version (lines 122-137).                                    *)
(***************************************************************************)
ArticApi ==
    /\ pc = "artic"
    /\ \E resp \in ApiResponses :
        /\ Fetched(API_ARTIC, resp.status)
        /\ data' = resp
        /\ Return(ARTIC, check_artic_version(resp))
    /\ UNCHANGED <<ret, inp, soup, err_e, versions, tried, pangolin_info,
                   artic_info, schemes_info, calls, printed, key>>

(***************************************************************************)
(* check_artic_sarscov2_primers (lines 139-188).                           *)
(***************************************************************************)
SarsCov2 ==
    /\ pc = "sars"
    /\ \E resp \in PageResponses(SarsPages) :
        /\ Fetched(URL_SARSCOV2, resp.status)
        /\ soup' = resp.page
        /\ IF resp.status # "ok"
           THEN /\ Return(SARSCOV2, SarsHandler(resp.status))
                /\ UNCHANGED versions
           ELSE /\ Return(SARSCOV2, SarsCov2Primers(resp.page))
                /\ versions' = IF SortRaises(DetectedVersions(resp.page))
                               THEN DetectedVersions(resp.page)
                               ELSE orderDescending(DetectedVersions(resp.page))
    /\ UNCHANGED <<ret, inp, data, err_e, tried, pangolin_info, artic_info,
                   schemes_info, calls, printed, key>>

(***************************************************************************)
(* check_artic_ncov2019_primers (lines 190-259).                           *)
(***************************************************************************)
\* lines 194-202
NcovFetch ==
    /\ pc = "ncov:fetch"
    /\ \E resp \in PageResponses(NcovPages) :
        /\ Fetched(URL_NCOV2019, resp.status)
        /\ soup' = resp.page
        /\ IF resp.status # "ok"
           THEN Return(NCOV2019, NcovHandler(resp.status))
           ELSE pc' = "ncov:1" /\ UNCHANGED retval
    /\ UNCHANGED <<ret, inp, data, err_e, versions, tried, pangolin_info, artic_info,
                   schemes_info, calls, printed, key>>

\* lines 205-218
NcovHyperlinkScan ==
    /\ pc = "ncov:1"
    /\ versions' = HyperlinkScan(soup)
    /\ tried' = Append(tried, "1")
    /\ pc' = IF versions' = <<>> THEN "ncov:2" ELSE "ncov:sort"
    /\ UNCHANGED <<ret, inp, data, soup, err_e, net, retval, pangolin_info, artic_info,
                   schemes_info, calls, printed, key>>

\* lines 221-230
NcovRoleRowScan ==
    /\ pc = "ncov:2"
    /\ versions' = versions \o RoleRowScan(soup)
    /\ tried' = Append(tried, "2")
    /\ pc' = IF versions' = <<>> THEN "ncov:3" ELSE "ncov:sort"
    /\ UNCHANGED <<ret, inp, data, soup, err_e, net, retval, pangolin_info, artic_info,
                   schemes_info, calls, printed, key>>

\* lines 233-242
NcovClassRowScan ==
    /\ pc = "ncov:3"
    /\ versions' = versions \o ClassRowScan(soup)
    /\ tried' = Append(tried, "3")
    /\ IF versions' = <<>>
       THEN Return(NCOV2019, Ok(NoVersionsDetected))
       ELSE pc' = "ncov:sort" /\ UNCHANGED retval
    /\ UNCHANGED <<ret, inp, data, soup, err_e, net, pangolin_info, artic_info,
                   schemes_info, calls, printed, key>>

\* lines 244-257
NcovSortReturn ==
    /\ pc = "ncov:sort"
    /\ versions' = SortOrKeep(versions)
    /\ Return(NCOV2019, Ok([all_versions |-> versions', url |-> Url(URL_NCOV2019, <<>>)]))
    /\ UNCHANGED <<ret, inp, data, soup, err_e, tried, net, pangolin_info, artic_info,
                   schemes_info, calls, printed, key>>

(***************************************************************************)
(* main (lines 261-302).  An exception a callee lets through ends main.    *)
(***************************************************************************)
Line(fmt) == [fmt |-> fmt, arg |-> Unset]
LineWith(fmt, v) == [fmt |-> fmt, arg |-> [v |-> v]]

\* lines 271-276 and 282-287
ReleaseLines(info) ==
    IF IsFailure(info) THEN <<LineWith("  {error}", info.error)>>
    ELSE <<LineWith("  Latest version: {version}", info.version),
           LineWith("  Published date: {published_date}", info.published_date),
           LineWith("  URL: {url}", info.url)>>

\* lines 293-300
SchemeLines(info) ==
    IF IsFailure(info) THEN <<LineWith("  {error}", info.error)>>
    ELSE <<Line("  Available primer versions:")>>
         \o [i \in 1..Len(info.all_versions) |-> LineWith("    - {version}", info.all_versions[i])]
         \o <<LineWith("  URL: {url}", info.url)>>

\* the callee's locals are gone once it has returned
DropLocals ==
    /\ data' = NoData
    /\ soup' = NoPage
    /\ err_e' = ""
    /\ versions' = <<>>
    /\ tried' = <<>>

\* lines 263-270
MainCallPangolin ==
    /\ pc = "main"
    /\ printed' = <<Line("=" ), Line("CHECKING LATEST VERSIONS OF SARS-CoV-2 TOOLS"),
                    Line("="), Line("\n1. Pangolin Repository"), Line("-")>>
    /\ calls' = Append(calls, PANGOLIN)
    /\ pc' = "pangolin:A"
    /\ ret' = "main:pangolin_info"
    /\ UNCHANGED <<inp, data, soup, err_e, versions, tried, net, retval, pangolin_info,
                   artic_info, schemes_info, key>>

\* lines 270-281
MainPrintPangolinCallArtic ==
    /\ pc = "main:pangolin_info"
    /\ DropLocals
    /\ IF retval.raised
       THEN /\ pc' = "crashed"
            /\ UNCHANGED <<ret, pangolin_info, printed, calls>>
       ELSE /\ pangolin_info' = retval.value
            /\ printed' = printed \o ReleaseLines(retval.value)
                          \o <<Line("\n2. ARTIC Field Bioinformatics"), Line("-")>>
            /\ calls' = Append(calls, ARTIC)
            /\ pc' = "artic"
            /\ ret' = "main:artic_info"
    /\ UNCHANGED <<inp, net, retval, artic_info, schemes_info, key>>

\* lines 281-292
MainPrintArticCallNcov ==
    /\ pc = "main:artic_info"
    /\ DropLocals
    /\ IF retval.raised
       THEN /\ pc' = "crashed"
            /\ UNCHANGED <<ret, artic_info, printed, calls>>
       ELSE /\ artic_info' = retval.value
            /\ printed' = printed \o ReleaseLines(retval.value)
                          \o <<Line("\n3. ARTIC nCoV-2019 Primer Schemes"), Line("-")>>
            /\ calls' = Append(calls, NCOV2019)
            /\ pc' = "ncov:fetch"
            /\ ret' = "main:schemes_info"
    /\ UNCHANGED <<inp, net, retval, pangolin_info, schemes_info, key>>

\* lines 292-302
MainPrintSchemes ==
    /\ pc = "main:schemes_info"
    /\ DropLocals
    /\ IF retval.raised
       THEN /\ pc' = "crashed"
            /\ UNCHANGED <<schemes_info, printed>>
       ELSE /\ schemes_info' = retval.value
            /\ printed' = printed \o SchemeLines(retval.value) \o <<Line("\n="), Line("=")>>
            /\ pc' = "exit"
    /\ UNCHANGED <<ret, inp, net, retval, pangolin_info, artic_info, calls, key>>

(***************************************************************************)
(* The sort key and the sort, evaluated on their own.                      *)
(***************************************************************************)
EvalSortKey ==
    /\ pc = "sortKey"
    /\ key' = sortKey(inp.label)
    /\ pc' = "exit"
    /\ UNCHANGED <<ret, inp, data, soup, err_e, versions, tried, net, retval,
                   pangolin_info, artic_info, schemes_info, calls, printed>>

EvalSort ==
    /\ pc = "sort"
    /\ versions' = orderDescending(inp.labels)
    /\ pc' = "exit"
    /\ UNCHANGED <<ret, inp, data, soup, err_e, tried, net, retval, pangolin_info,
                   artic_info, schemes_info, calls, printed, key>>

(***************************************************************************)
(* Initial states and specifications.                                      *)
(***************************************************************************)
KeyAlphabet == {"V", "5", "3", "0", ".", "x"}

txt_V53 == <<"V", "5", ".", "3">>
txt_5 == <<"5">>
txt_latest == <<"l", "a", "t", "e", "s", "t">>
txt_V20 == <<"V", "2", ".", "0">>
txt_2 == <<"2">>
txt_V0 == <<"V", "0">>
txt_V510 == <<"V", "5", ".", "1", "0">>
txt_V59 == <<"V", "5", ".", "9">>
txt_V532 == <<"V", "5", ".", "3", ".", "2">>

KeyLabels == SeqsUpTo(KeyAlphabet, MaxLabelLen) \cup {txt_V53, txt_5, txt_latest, txt_V532, txt_V510}

SortLabels == {txt_V1, txt_V53, txt_V2, txt_V20, txt_2, txt_latest, txt_V0, txt_V510, txt_V59}

StartOf(entry) ==
    CASE entry = "main" -> "main"
      [] entry = PANGOLIN -> "pangolin:A"
      [] entry = ARTIC -> "artic"
      [] entry = SARSCOV2 -> "sars"
      [] entry = NCOV2019 -> "ncov:fetch"
      [] entry = "sortKey" -> "sortKey"
      [] entry = "sort" -> "sort"

\* the state in which `entry` is about to run
Start(entry, len, label, labels) ==
    /\ inp = [entry |-> entry, page_len |-> len, label |-> label, labels |-> labels]
    /\ pc = StartOf(entry)
    /\ ret = "exit"
    /\ data = NoData
    /\ soup = NoPage
    /\ err_e = ""
    /\ versions = <<>>
    /\ tried = <<>>
    /\ net = <<>>
    /\ retval = NoReturn
    /\ pangolin_info = Unset
    /\ artic_info = Unset
    /\ schemes_info = Unset
    /\ calls = <<>>
    /\ printed = <<>>
    /\ key = <<>>

\* the script is run (main), or one of its functions is called, on pages
\* of at most one element
Init == \E entry \in {"main", PANGOLIN, ARTIC, SARSCOV2, NCOV2019} :
            Start(entry, 1, <<>>, <<>>)

Next ==
    \/ MainCallPangolin
    \/ MainPrintPangolinCallArtic
    \/ MainPrintArticCallNcov
    \/ MainPrintSchemes
    \/ PangolinApi
    \/ PangolinReleases
    \/ PangolinTags
    \/ PangolinLinkScan
    \/ ArticApi
    \/ SarsCov2
    \/ NcovFetch
    \/ NcovHyperlinkScan
    \/ NcovRoleRowScan
    \/ NcovClassRowScan
    \/ NcovSortReturn

Spec == Init /\ [][Next]_vars

\* check_pangolin_version called on its own
InitPangolin == Start(PANGOLIN, MaxDivs, <<>>, <<>>)
NextPangolin == PangolinApi \/ PangolinReleases \/ PangolinTags \/ PangolinLinkScan
SpecPangolin == InitPangolin /\ [][NextPangolin]_vars

\* check_artic_sarscov2_primers called on its own
InitPrimerA == Start(SARSCOV2, MaxDivs, <<>>, <<>>)
NextPrimerA == SarsCov2
SpecPrimerA == InitPrimerA /\ [][NextPrimerA]_vars

\* check_artic_ncov2019_primers called on its own
InitPrimerB == Start(NCOV2019, MaxDivs, <<>>, <<>>)
NextPrimerB ==
    NcovFetch \/ NcovHyperlinkScan \/ NcovRoleRowScan \/ NcovClassRowScan \/ NcovSortReturn
SpecPrimerB == InitPrimerB /\ [][NextPrimerB]_vars

\* the sort key of one label
InitKey == \E label \in KeyLabels : Start("sortKey", 0, label, <<>>)
SpecKey == InitKey /\ [][EvalSortKey]_vars

\* the sort of one list
InitSort == \E labels \in SeqsUpTo(SortLabels, MaxList) : Start("sort", 0, <<>>, labels)
SpecSort == InitSort /\ [][EvalSort]_vars

(***************************************************************************)
(* Vocabulary of the properties.                                           *)
(***************************************************************************)
\* f has just handed its result to its caller
JustReturned(f) == retval.from = f /\ pc = ret

Count(s, x) == Cardinality({i \in 1..Len(s) : s[i] = x})
Has(s, x) == \E i \in 1..Len(s) : s[i] = x
IsPrefix(a, b) == Len(a) <= Len(b) /\ a = SubSeq(b, 1, Len(a))
Urls(log) == [i \in 1..Len(log) |-> log[i][1]]

AllStrategies == <<"A", "B", "C", "D">>

\* the API answered with everything Strategy A needs
Usable(resp) ==
    /\ resp.status = "ok"
    /\ resp.json
    /\ resp.tag_name # <<>>
    /\ resp.published_at # <<>>
    /\ resp.published_at[1].tail = "Z"
    /\ resp.html_url # <<>>

PipelineUrls(f) ==
    CASE f = PANGOLIN -> {API_PANGOLIN, URL_RELEASES, URL_TAGS}
      [] f = ARTIC -> {API_ARTIC}
      [] f = SARSCOV2 -> {URL_SARSCOV2}
      [] f = NCOV2019 -> {URL_NCOV2019}

\* f fetched something and none of its fetches succeeded
EveryFetchFailed(f) ==
    /\ \E i \in 1..Len(net) : net[i][1] \in PipelineUrls(f)
    /\ \A i \in 1..Len(net) : net[i][1] \in PipelineUrls(f) => net[i][2] # "ok"

IsPermutation(a, b) ==
    /\ Len(a) = Len(b)
    /\ \A i \in 1..Len(a) : Count(a, a[i]) = Count(b, a[i])

Descending(s) ==
    \A i \in 1..Len(s) : \A j \in (i + 1)..Len(s) : ~ListLess(sortKey(s[i]), sortKey(s[j]))

WithKey(s, k) == SelectSeq(s, LAMBDA x : sortKey(x) = k)

\* labels of equal key stand in `out` in the order they have in `in`
KeepsTies(in, out) ==
    \A i \in 1..Len(out) : WithKey(out, sortKey(out[i])) = WithKey(in, sortKey(out[i]))

HasDigit(x) == \E i \in 1..Len(x) : x[i] \in Digits

(***************************************************************************)
(* C1.  check_pangolin_version returns a Failure only once every strategy  *)
(* of the chain A, B, C, D has been attempted and has failed.              *)
(***************************************************************************)
\* C1: a Failure is returned only after all of A, B, C, D were attempted.
C1_FailureOnlyWhenChainExhausted ==
    (JustReturned(PANGOLIN) /\ IsFailure(retval.value)) => tried = AllStrategies

(***************************************************************************)
(* C2.  Whenever all four strategies fail, the Failure message holds both  *)
(* the Strategy-A error and the error of the HTML strategies.              *)
(***************************************************************************)
HtmlErrorDescriptions ==
    TransportErrors \cup {"Invalid isoformat string", "Could not find version tag",
                          "Could not find Pangolin version information"}

\* no strategy is left that could run: D has run, or the tags page that C
\* and D both read could not be fetched
AllFourFailed ==
    /\ JustReturned(PANGOLIN)
    /\ IsFailure(retval.value)
    /\ \/ tried = AllStrategies
       \/ tried = <<"A", "B", "C">> /\ net[Len(net)][2] # "ok"

\* C2: when all four strategies fail, the message holds the A error and an HTML error.
C2_ExhaustedFailureNamesBothErrors ==
    AllFourFailed =>
        /\ Has(retval.value.error, err_e)
        /\ \E d \in HtmlErrorDescriptions : Has(retval.value.error, d)

(***************************************************************************)
(* C3.  Every run of main calls each of the four functions exactly once    *)
(* and prints what each of them returned.                                  *)
(***************************************************************************)
PrintedResult(info) ==
    IF IsFailure(info)
    THEN \E i \in 1..Len(printed) :
            printed[i].fmt = "  {error}" /\ printed[i].arg.v = info.error
    ELSE \E i \in 1..Len(printed) :
            printed[i].fmt = "  URL: {url}" /\ printed[i].arg.v = info.url

\* C3: main calls each of the four functions once and prints each result.
C3_MainRunsAllFourOnce ==
    (inp.entry = "main" /\ pc = "exit") =>
        /\ \A f \in {PANGOLIN, ARTIC, SARSCOV2, NCOV2019} : Count(calls, f) = 1
        /\ PrintedResult(pangolin_info)
        /\ PrintedResult(artic_info)
        /\ PrintedResult(schemes_info)

(***************************************************************************)
(* C4.  Failure isolation: whatever the fetches do, each of the four       *)
(* functions returns a result record and lets no exception through; a      *)
(* function whose every fetch fails returns a Failure; whether             *)
(* check_artic_version fails depends on its own response alone; a run of   *)
(* main is never stopped before its end, and at its end holds a result of  *)
(* every function it called, a Failure for each one whose fetches all      *)
(* failed.                                                                 *)
(***************************************************************************)
Pipelines == {PANGOLIN, ARTIC, SARSCOV2, NCOV2019}

\* C4: no exception leaves a function, all-fetches-failed gives a Failure, main runs to its end.
C4_FailureIsolation ==
    /\ pc # "crashed"
    /\ ~retval.raised
    /\ pc = "exit" \/ ENABLED Next
    /\ \A f \in Pipelines :
        JustReturned(f) =>
            /\ IsFailure(retval.value) # IsSuccess(retval.value)
            /\ EveryFetchFailed(f) => IsFailure(retval.value)
    /\ JustReturned(ARTIC) => (IsFailure(retval.value) <=> ~Usable(data))
    /\ (inp.entry = "main" /\ pc = "exit") =>
        /\ IsFailure(pangolin_info) # IsSuccess(pangolin_info)
        /\ IsFailure(artic_info) # IsSuccess(artic_info)
        /\ IsFailure(schemes_info) # IsSuccess(schemes_info)
        /\ EveryFetchFailed(PANGOLIN) => IsFailure(pangolin_info)
        /\ EveryFetchFailed(ARTIC) => IsFailure(artic_info)
        /\ EveryFetchFailed(NCOV2019) => IsFailure(schemes_info)

\* main ends with a Failure of the first function beside successes of the others
C4_Witness ==
    /\ inp.entry = "main"
    /\ pc = "exit"
    /\ EveryFetchFailed(PANGOLIN)
    /\ IsFailure(pangolin_info)
    /\ IsSuccess(artic_info)
    /\ IsSuccess(schemes_info)

(***************************************************************************)
(* C5.  First success wins in check_pangolin_version: a usable API answer  *)
(* is returned as it is (tag, date as year-month-day, URL) and no page is  *)
(* fetched; after an API failure, a release header with a version link     *)
(* (and a date that can be read) gives that link's version and the date,   *)
(* and the tags page is not fetched; a strategy runs only after all the    *)
(* earlier ones have failed.                                               *)
(***************************************************************************)
\* the link of element h the three link selectors pick, in their priority
ClaimedLink(h) ==
    LET pick(Matches(_)) == SelectSeq(h.links, Matches)[1]
    IN  IF \E i \in 1..Len(h.links) : h.links[i].primary
        THEN pick(LAMBDA a : a.primary)
        ELSE IF \E i \in 1..Len(h.links) : h.links[i].href_tag
             THEN pick(LAMBDA a : a.href_tag)
             ELSE pick(LAMBDA a : a.hovercard)

HasVersionLink(h) ==
    \E i \in 1..Len(h.links) :
        h.links[i].primary \/ h.links[i].href_tag \/ h.links[i].hovercard

DateReadable(h) ==
    ~(h.time # <<>> /\ h.time[1].has_datetime /\ h.time[1].datetime.tail = "garbage")

ClaimedDate(h) ==
    IF h.time # <<>> /\ h.time[1].has_datetime
    THEN [kind |-> "date", ymd |-> h.time[1].datetime.date]
    ELSE UnknownDate

C7_StableDescendingSort ==
    (inp.entry = "sort" /\ pc = "exit") =>
        /\ IsPermutation(inp.labels, versions)
        /\ Descending(versions)
        /\ KeepsTies(inp.labels, versions)
        /\ inp.labels = <<txt_V1, txt_V53, txt_V2>> => versions = <<txt_V53, txt_V2, txt_V1>>

\* a list with two labels of one key, given in the order "2", "V2.0"
C7_Witness ==
    /\ inp.entry = "sort"
    /\ pc = "exit"
    /\ inp.labels = <<txt_2, txt_V53, txt_V20>>
    /\ versions = <<txt_V53, txt_2, txt_V20>>

(***************************************************************************)
(* C8.  check_artic_sarscov2_primers on a fetched listing: with at least   *)
(* one sub-directory row (a row with the directory icon and a name link)   *)
(* the result is a success whose all_versions holds the version-like names *)
(* (all names if none is version-like) in descending key order and whose   *)
(* latest_version is the first of them; V1 and V2 give "V2" and            *)
(* ["V2", "V1"]; the result is the Failure "No primer versions found"      *)
(* exactly when there is no such row.                                      *)
(***************************************************************************)
\* C8: the result of check_artic_sarscov2_primers on a fetched listing.
C8_PrimerSetA ==
    (JustReturned(SARSCOV2) /\ soup.kind = "sars-cov-2") =>
        LET names == Names(DirectoryRows(soup))
            like == SelectSeq(names, IsVersionLike)
            expected == IF like # <<>> THEN like ELSE names
            v == retval.value
        IN  /\ IsFailure(v) <=> names = <<>>
            /\ IsFailure(v) => v.error = <<"No primer versions found">>
            /\ IsSuccess(v) =>
                /\ IsPermutation(expected, v.all_versions)
                /\ Descending(v.all_versions)
                /\ KeepsTies(expected, v.all_versions)
                /\ v.latest_version = v.all_versions[1]
            /\ names = <<txt_V1, txt_V2>> =>
                (v.latest_version = txt_V2 /\ v.all_versions = <<txt_V2, txt_V1>>)

C8_Witness ==
    /\ JustReturned(SARSCOV2)
    /\ soup.kind = "sars-cov-2"
    /\ Names(DirectoryRows(soup)) = <<txt_V1, txt_V2>>
    /\ retval.value.latest_version = txt_V2

(***************************************************************************)
(* C10.  check_artic_ncov2019_primers runs the role-row scan only if the   *)
(* hyperlink scan found nothing and the class-row scan only if both found  *)
(* nothing; the list of the hyperlink scan holds each link text once, in   *)
(* first-seen order, and never "..", "." or "nCoV-2019"; the Failure       *)
(* "Could not detect ..." is returned exactly when the three scans find    *)
(* nothing.                                                                *)
(***************************************************************************)
Accepted1(a) ==
    a.href = "in" /\ strip(a.text) \notin {<<>>, txt_dotdot, txt_dot, txt_nCoV}

Yields1(page) == \E i \in 1..Len(find_all_a(page)) : Accepted1(find_all_a(page)[i])

Yields2(page) ==
    \E i \in 1..Len(page.divs) :
        LET row == page.divs[i]
        IN  /\ row.role_row
            /\ row.svg = "octicon-file-directory-fill"
            /\ row.links # <<>>
            /\ strip(row.links[1].text) # <<>>

Yields3(page) ==
    \E i \in 1..Len(page.divs) :
        LET row == page.divs[i]
        IN  /\ row.cls \in {"Box-row", "js-navigation-item"}
            /\ row.svg \in {"octicon-file-directory-fill", "directory"}
            /\ row.links # <<>>

\* the place of the first accepted hyperlink of text t
FirstSeen(page, t) ==
    LET as == find_all_a(page)
        at == {i \in 1..Len(as) : Accepted1(as[i]) /\ strip(as[i].text) = t}
    IN  CHOOSE i \in at : \A j \in at : i <= j

\* C10: the three scans of check_artic_ncov2019_primers run as a cascade.
C10_CascadeOfScans ==
    /\ IsPrefix(tried, <<"1", "2", "3">>)
    /\ Has(tried, "2") => ~Yields1(soup)
    /\ Has(tried, "3") => (~Yields1(soup) /\ ~Yields2(soup))
    /\ (tried = <<"1">> /\ pc \in {"ncov:2", "ncov:sort"}) =>
        /\ \A i \in 1..Len(versions) : Count(versions, versions[i]) = 1
        /\ \A i \in 1..Len(versions) : versions[i] \notin {txt_dotdot, txt_dot, txt_nCoV}
        /\ \A i \in 1..Len(find_all_a(soup)) :
              Accepted1(find_all_a(soup)[i]) => Has(versions, strip(find_all_a(soup)[i].text))
        /\ \A i \in 1..Len(versions) : \A j \in (i + 1)..Len(versions) :
              FirstSeen(soup, versions[i]) < FirstSeen(soup, versions[j])
    /\ (JustReturned(NCOV2019) /\ soup.kind = "nCoV-2019") =>
        /\ IsFailure(retval.value) <=> (~Yields1(soup) /\ ~Yields2(soup) /\ ~Yields3(soup))
        /\ IsFailure(retval.value) => (retval.value = NoVersionsDetected /\ tried = <<"1", "2", "3">>)

\* the hyperlink scan met the same text twice and kept it once
C10_Witness ==
    /\ pc = "ncov:sort"
    /\ tried = <<"1">>
    /\ Len(find_all_a(soup)) = 2
    /\ \A i \in 1..2 : Accepted1(find_all_a(soup)[i]) /\ strip(find_all_a(soup)[i].text) = txt_V1
    /\ versions = <<txt_V1>>

====
